---- MODULE Spec2Model ----
(***************************************************************************)
(* Model of coh/coh_train.py: the resumable training loop `main`, its      *)
(* train/eval steps, the train-state restore paths and the checkpoint      *)
(* triggers.  One run of main is a sequential process; pc is its position. *)
(* Tensors are small integers (mod Modulus), RNG keys are paths in the     *)
(* split tree, an optional Python value is <<>> (None / unbound) or <<v>>. *)
(***************************************************************************)
EXTENDS Integers, Sequences, FiniteSets, TLC

VARIABLES
    FLAGS,              \* the flag values of this run (lines 33-61)
    pc,                 \* position of main
    error,              \* <<>> or <<the exception main has raised, and where>>
    tokenizer,          \* local of main, bound at lines 83/85 only
    hf_dataset, pt_dataset,        \* <<>> or <<the dataset object>>
    hf_pos, pt_pos,                \* batches drawn so far by zip (line 300)
    hf_eval_iterator, pt_eval_iterator,  \* <<>> or <<batches drawn so far>>
    gptj_config, config,           \* locals of main (lines 104-135)
    train_state_partition, shard_fns, gather_fns,
    train_state, restored_params,
    start_step, step_counter, step, hf_batch, pt_batch,
    sharded_rng, jax_utils_rng,
    metrics, eval_metric_list, eval_i, eval_trace,
    log_metrics,
    checkpoint_dir,     \* file name -> record written by save_all
    hist                \* history of the run (calls issued, counters)

vars == <<FLAGS, pc, error, tokenizer, hf_dataset, pt_dataset, hf_pos, pt_pos,
          hf_eval_iterator, pt_eval_iterator, gptj_config, config,
          train_state_partition, shard_fns, gather_fns, train_state,
          restored_params, start_step, step_counter, step, hf_batch, pt_batch,
          sharded_rng, jax_utils_rng, metrics, eval_metric_list, eval_i,
          eval_trace, log_metrics, checkpoint_dir, hist>>

-----------------------------------------------------------------------------
(* Bounds of the model *)
MaxSteps == 3           \* total_steps and the stored checkpoint step are at most MaxSteps
MaxFreq == 2            \* the log and save intervals are at most MaxFreq
MaxEval == 2            \* eval_steps is at most MaxEval
MaxWeight == 2          \* pt_loss_weight is at most MaxWeight
Modulus == 5            \* tensor values are taken modulo Modulus

seed == 42

None == <<>>
Some(x) == <<x>>
Get(o) == o[1]

Max(a, b) == IF a >= b THEN a ELSE b

RECURSIVE SumSeq(_)
SumSeq(s) == IF s = <<>> THEN 0 ELSE Head(s) + SumSeq(Tail(s))

RECURSIVE Gcd(_, _)
Gcd(a, b) == IF b = 0 THEN a ELSE Gcd(b, a % b)

-----------------------------------------------------------------------------
(* Parameter trees: two leaves, integer values *)
Leaves == {"wte", "ln_f"}
LeafIdx(l) == IF l = "wte" THEN 1 ELSE 2

InitParams == [l \in Leaves |-> LeafIdx(l)]          \* model.init
PretrainedParams == [l \in Leaves |-> (2 * LeafIdx(l)) % Modulus]  \* load_pretrained
StoredParams == [l \in Leaves |-> (LeafIdx(l) + 2) % Modulus]    \* checkpoint file

TrainState_create(params) ==
    [step |-> 0, params |-> params, opt_state |-> [l \in Leaves |-> 0]]

apply_gradients(ts, grads) ==
    [step |-> ts.step + 1,
     params |-> [l \in Leaves |-> (ts.params[l] + Modulus - (grads[l] % Modulus)) % Modulus],
     opt_state |-> [l \in Leaves |-> (ts.opt_state[l] + grads[l]) % Modulus]]

-----------------------------------------------------------------------------
(* RNG keys: a key is its path in the split tree; JaxRNG is the generator *)
split(key, num) == [i \in 1..num |-> Append(key, i - 1)]

RngKeys == <<"params", "dropout", "fcm">>

\* JaxRNG.__call__(keys): the generator keeps split[0], hands out the rest
JaxRNG_call_keys(rng) ==
    LET s == split(rng, Len(RngKeys) + 1)
    IN  [rng |-> s[1], out |-> [i \in 1..Len(RngKeys) |-> s[i + 1]]]

\* JaxRNG.__call__(): the generator keeps split[0], hands out split[1]
JaxRNG_call(rng) ==
    LET s == split(rng, 2) IN [rng |-> s[1], out |-> s[2]]

next_rng(g) == JaxRNG_call(g)

KeyHash(key) == SumSeq(key) % 2

-----------------------------------------------------------------------------
(* Metrics are rationals <<numerator, denominator>> in lowest terms *)
Rat(n, d) == LET g == Gcd(n, d) IN IF g = 0 THEN <<0, 1>> ELSE <<n \div g, d \div g>>
RatAdd(a, b) == Rat(a[1] * b[2] + b[1] * a[2], a[2] * b[2])

RECURSIVE RatSum(_)
RatSum(s) == IF s = <<>> THEN <<0, 1>> ELSE RatAdd(Head(s), RatSum(Tail(s)))

Mean(s) == LET t == RatSum(s) IN Rat(t[1], t[2] * Len(s))

average_metrics(list) ==
    [k \in DOMAIN list[1] |-> Mean([i \in 1..Len(list) |-> list[i][k]])]

dict_update(m, d) ==
    [k \in (DOMAIN m) \cup (DOMAIN d) |-> IF k \in DOMAIN d THEN d[k] ELSE m[k]]

-----------------------------------------------------------------------------
(* The loss of a batch under params, and its gradient (lines 157-169) *)
loss_and_accuracy(params, batch, rngs) ==
    LET z == params["wte"] + 2 * params["ln_f"] + batch + KeyHash(rngs[2])
    IN  [loss |-> z % Modulus, accuracy |-> (z + batch) % 2]

grad_fn(params, batch, rngs) ==
    [value |-> loss_and_accuracy(params, batch, rngs),
     grads |-> [l \in Leaves |->
                  (params[l] * LeafIdx(l) + batch + KeyHash(rngs[2])) % Modulus]]

\* the sum of the two gradients without the weight
tree_map_grads_unweighted(hf_grads, pt_grads, pt_loss_weight) ==
    [l \in Leaves |-> hf_grads[l] + pt_grads[l]]

\* lines 172-175
tree_map_grads(hf_grads, pt_grads, pt_loss_weight) ==
    [l \in Leaves |-> hf_grads[l] + pt_grads[l] * pt_loss_weight]

global_norm(tree) == tree["wte"] + tree["ln_f"]

\* lines 155-186.  The fields after `metrics` record what the step did with
\* its inputs: the parameters each gradient was taken at, the gradient
\* handed to the optimizer and the number of optimizer updates.
train_step(ts, rng, hf_b, pt_b, pt_loss_weight) ==
    LET g1 == JaxRNG_call_keys(rng)
        hf == grad_fn(ts.params, hf_b, g1.out)
        g2 == JaxRNG_call_keys(g1.rng)
        pt == grad_fn(ts.params, pt_b, g2.out)
        grads == tree_map_grads(hf.grads, pt.grads, pt_loss_weight)
        new == apply_gradients(ts, grads)
        g3 == JaxRNG_call(g2.rng)
    IN  [train_state |-> new,
         rng |-> g3.out,
         metrics |-> [hf_loss |-> Rat(hf.value.loss, 1),
                      pt_loss |-> Rat(pt.value.loss, 1),
                      hf_accuracy |-> Rat(hf.value.accuracy, 1),
                      pt_accuracy |-> Rat(pt.value.accuracy, 1),
                      learning_rate |-> Rat(new.step, 1),
                      gradient_norm |-> Rat(global_norm(grads), 1),
                      param_norm |-> Rat(global_norm(new.params), 1)],
         hf_at |-> ts.params, pt_at |-> ts.params,
         hf_rngs |-> g1.out, pt_rngs |-> g2.out,
         applied |-> <<grads>>]

\* an eval step whose caller keeps the key it passed in
eval_step_keeping_key(ts, rng, hf_b, pt_b, metrics_cell) ==
    [rng |-> rng, out |-> metrics_cell,
     aux |-> [eval_hf_accuracy |-> Rat(0, 1), eval_pt_accuracy |-> Rat(0, 1),
              eval_hf_loss |-> Rat(0, 1), eval_pt_loss |-> Rat(0, 1)]]

\* lines 188-211.  `aux` is the local that holds the evaluation metrics;
\* the function returns the name `metrics`, which is not a local of
\* eval_step: it resolves to the variable `metrics` of the enclosing main,
\* whose value the caller passes here as metrics_cell.
eval_step(ts, rng, hf_b, pt_b, metrics_cell) ==
    LET g1 == JaxRNG_call_keys(rng)
        hf == loss_and_accuracy(ts.params, hf_b, g1.out)
        g2 == JaxRNG_call_keys(g1.rng)
        pt == loss_and_accuracy(ts.params, pt_b, g2.out)
        g3 == JaxRNG_call(g2.rng)
    IN  [rng |-> g3.out,
         out |-> metrics_cell,
         aux |-> [eval_hf_accuracy |-> Rat(hf.accuracy, 1),
                  eval_pt_accuracy |-> Rat(pt.accuracy, 1),
                  eval_hf_loss |-> Rat(hf.loss, 1),
                  eval_pt_loss |-> Rat(pt.loss, 1)]]

-----------------------------------------------------------------------------
(* The configurations and the environment of a run *)
Models == {"gptj", "opt", "bert"}
\* load_dataset_state split at ',' : '' is <<>>
DatasetStates == {<<>>, <<"hf.pkl">>, <<"hf.pkl", "pt.pkl">>}
\* load_checkpoint split at the first '::' : '' is <<>>
CheckpointSelectors ==
    {<<>>, <<"ckpt">>, <<"huggingface", "ckpt">>, <<"full", "ckpt">>,
     <<"params-only", "ckpt">>}
PtLossWeights == {1, MaxWeight}
StoredSteps == {0, 1, MaxSteps}
SeqLengths == {8, 16}

FlagValues ==
    [model : Models,
     load_dataset_state : DatasetStates,
     load_checkpoint : CheckpointSelectors,
     total_steps : 0..MaxSteps,
     log_freq : {1, MaxFreq},
     save_model_freq : {0, 1, MaxFreq},
     save_milestone_freq : {0, 1, MaxFreq},
     eval_steps : 0..MaxEval,
     pt_loss_weight : PtLossWeights]

\* the i-th batch of dataset k.  A dataset is an iterator of the data
\* boundary: whether it has a next batch is known when it is asked for one.
Batch(k, i) == (i + k) % 3

Raise(name) ==
    /\ pc' = "error"
    /\ error' = Some([name |-> name, at |-> pc])

NoHist ==
    [train_steps |-> 0, eval_steps |-> 0, logs |-> 0,
     constructors |-> <<>>, loaded |-> "nothing", stored_step |-> <<>>,
     start |-> <<>>,
     saves |-> <<>>, iter_saves |-> <<>>,
     last |-> <<>>, eval_entry |-> <<>>, eval_aux |-> <<>>,
     exhausted |-> <<>>,
     step_calls |-> <<>>,
     donated |-> [keys |-> {}, train_states |-> {}, params |-> {}]]

Init ==
    /\ FLAGS \in FlagValues
    /\ pc = "load_datasets"
    /\ error = None
    /\ tokenizer = None
    /\ hf_dataset = None /\ pt_dataset = None
    /\ hf_pos = 0 /\ pt_pos = 0
    /\ hf_eval_iterator = None /\ pt_eval_iterator = None
    /\ gptj_config = None /\ config = None
    /\ train_state_partition = None /\ shard_fns = None /\ gather_fns = None
    /\ train_state = None /\ restored_params = None
    /\ start_step = None /\ step_counter = None /\ step = None
    /\ hf_batch = None /\ pt_batch = None
    /\ sharded_rng = None
    /\ jax_utils_rng = <<seed>>          \* set_random_seed(FLAGS.seed), line 75
    /\ metrics = None /\ eval_metric_list = <<>> /\ eval_i = 0
    /\ eval_trace = None
    /\ log_metrics = None
    /\ checkpoint_dir = <<>>
    /\ hist = NoHist

setupVars == <<tokenizer, hf_dataset, pt_dataset, hf_eval_iterator,
               pt_eval_iterator, gptj_config, config, train_state_partition,
               shard_fns, gather_fns>>
loopVars == <<step_counter, step, hf_batch, pt_batch, hf_pos, pt_pos>>
evalVars == <<eval_metric_list, eval_i, eval_trace>>

\* lines 77-89
LoadDatasets ==
    /\ pc = "load_datasets"
    /\ \E seq_pt \in SeqLengths :
        LET hf == [name |-> "hf", seq_length |-> 8]
            pt == [name |-> "pt", seq_length |-> seq_pt]
        IN
        IF FLAGS.load_dataset_state # <<>> THEN
            IF Len(FLAGS.load_dataset_state) # 2 THEN
                /\ Raise("ValueError")
                /\ UNCHANGED <<tokenizer, hf_dataset, pt_dataset>>
            ELSE
                /\ hf_dataset' = Some(hf)
                /\ pt_dataset' = Some(pt)
                /\ pc' = "load_eval_datasets"
                /\ UNCHANGED <<tokenizer, error>>
        ELSE IF FLAGS.model \in {"gptj", "opt"} THEN
            /\ tokenizer' = Some(FLAGS.model)
            /\ hf_dataset' = Some(hf)
            /\ pt_dataset' = Some(pt)
            /\ pc' = "load_eval_datasets"
            /\ UNCHANGED error
        ELSE
            /\ Raise("ValueError")
            /\ UNCHANGED <<tokenizer, hf_dataset, pt_dataset>>
    /\ UNCHANGED <<FLAGS, hf_pos, pt_pos, hf_eval_iterator, pt_eval_iterator,
                   gptj_config, config, train_state_partition, shard_fns,
                   gather_fns, train_state, restored_params, start_step,
                   step_counter, step, hf_batch, pt_batch, sharded_rng,
                   jax_utils_rng, metrics, evalVars, log_metrics,
                   checkpoint_dir, hist>>

\* lines 91-102
LoadEvalDatasets ==
    /\ pc = "load_eval_datasets"
    /\ IF FLAGS.eval_steps > 0
       THEN /\ hf_eval_iterator' = Some(0)
            /\ pt_eval_iterator' = Some(0)
       ELSE UNCHANGED <<hf_eval_iterator, pt_eval_iterator>>
    /\ IF Get(hf_dataset).seq_length = Get(pt_dataset).seq_length
       THEN pc' = "build_model" /\ UNCHANGED error
       ELSE Raise("AssertionError")
    /\ UNCHANGED <<FLAGS, tokenizer, hf_dataset, pt_dataset, hf_pos, pt_pos,
                   gptj_config, config, train_state_partition, shard_fns,
                   gather_fns, train_state, restored_params, start_step,
                   step_counter, step, hf_batch, pt_batch, sharded_rng,
                   jax_utils_rng, metrics, evalVars, log_metrics,
                   checkpoint_dir, hist>>

\* lines 104-135: the configuration of the selected model; both branches read
\* the local `tokenizer` (lines 112, 127)
BuildModel ==
    /\ pc = "build_model"
    /\ IF FLAGS.model \notin {"gptj", "opt"} THEN
           /\ Raise("ValueError")
           /\ UNCHANGED <<gptj_config, config>>
       ELSE IF tokenizer = None THEN
           /\ Raise("UnboundLocalError")
           /\ UNCHANGED <<gptj_config, config>>
       ELSE
           /\ gptj_config' = IF FLAGS.model = "gptj" THEN Some("gptj_config") ELSE gptj_config
           /\ config' = IF FLAGS.model = "gptj" THEN Some("gptj_config") ELSE Some("opt_config")
           /\ pc' = "resolve_partition"
           /\ UNCHANGED error
    /\ UNCHANGED <<FLAGS, tokenizer, hf_dataset, pt_dataset, hf_pos, pt_pos,
                   hf_eval_iterator, pt_eval_iterator, train_state_partition,
                   shard_fns, gather_fns, train_state, restored_params,
                   start_step, step_counter, step, hf_batch, pt_batch,
                   sharded_rng, jax_utils_rng, metrics, evalVars, log_metrics,
                   checkpoint_dir, hist>>

\* lines 137-216: optimizer, shape-only evaluation of init_fn (one next_rng),
\* partition rules matched against the shapes
ResolvePartition ==
    /\ pc = "resolve_partition"
    /\ jax_utils_rng' = next_rng(jax_utils_rng).rng
    /\ train_state_partition' = Some([l \in Leaves |-> "PS"])
    /\ pc' = "make_shard_and_gather_fns"
    /\ UNCHANGED <<FLAGS, error, tokenizer, hf_dataset, pt_dataset, hf_pos,
                   pt_pos, hf_eval_iterator, pt_eval_iterator, gptj_config,
                   config, shard_fns, gather_fns, train_state, restored_params,
                   start_step, step_counter, step, hf_batch, pt_batch,
                   sharded_rng, metrics, evalVars, log_metrics, checkpoint_dir,
                   hist>>

\* the restore reached with the shard/gather functions not built
MakeShardAndGatherFns_not_built ==
    /\ pc = "make_shard_and_gather_fns"
    /\ pc' = "restore"
    /\ UNCHANGED <<FLAGS, error, setupVars, loopVars, train_state,
                   restored_params, start_step, sharded_rng, jax_utils_rng,
                   metrics, evalVars, log_metrics, checkpoint_dir, hist>>

\* lines 218-251: shard/gather functions, checkpointer, pjit wrappers
MakeShardAndGatherFns ==
    /\ pc = "make_shard_and_gather_fns"
    /\ shard_fns' = Some([l \in Leaves |-> "shard"])
    /\ gather_fns' = Some([l \in Leaves |-> "gather"])
    /\ pc' = "restore"
    /\ UNCHANGED <<FLAGS, error, tokenizer, hf_dataset, pt_dataset, hf_pos,
                   pt_pos, hf_eval_iterator, pt_eval_iterator, gptj_config,
                   config, train_state_partition, train_state, restored_params,
                   start_step, step_counter, step, hf_batch, pt_batch,
                   sharded_rng, jax_utils_rng, metrics, evalVars, log_metrics,
                   checkpoint_dir, hist>>

-----------------------------------------------------------------------------
(* Restoring the train state (lines 268-291) *)

\* StreamingCheckpointer.load_trainstate_checkpoint: a full checkpoint gives a
\* train state with its stored step, a params-only one gives parameters
load_trainstate_checkpoint(load_type, stored_step) ==
    IF load_type = "full" THEN
        [error |-> None,
         train_state |-> Some([step |-> stored_step, params |-> StoredParams,
                               opt_state |-> [l \in Leaves |-> stored_step % Modulus]]),
         restored_params |-> None]
    ELSE IF load_type = "params-only" THEN
        [error |-> None, train_state |-> None, restored_params |-> Some(StoredParams)]
    ELSE
        [error |-> Some("ValueError"), train_state |-> None, restored_params |-> None]

\* lines 270-281
Restore ==
    /\ pc = "restore"
    /\ IF FLAGS.load_checkpoint = <<>> THEN
           /\ pc' = "create_train_state"
           /\ UNCHANGED <<error, train_state, restored_params, hist>>
       ELSE IF Len(FLAGS.load_checkpoint) < 2 THEN
           /\ Raise("ValueError")
           /\ UNCHANGED <<train_state, restored_params, hist>>
       ELSE IF FLAGS.load_checkpoint[1] = "huggingface" THEN
           IF gptj_config = None THEN
               /\ Raise("UnboundLocalError")
               /\ UNCHANGED <<train_state, restored_params, hist>>
           ELSE
               /\ restored_params' = Some(PretrainedParams)
               /\ train_state' = None
               /\ hist' = [hist EXCEPT !.loaded = "params"]
               /\ pc' = "create_train_state"
               /\ UNCHANGED error
       ELSE \E stored_step \in StoredSteps :
           LET r == load_trainstate_checkpoint(FLAGS.load_checkpoint[1], stored_step)
           IN  IF r.error # None THEN
                   /\ Raise(Get(r.error))
                   /\ UNCHANGED <<train_state, restored_params, hist>>
               ELSE
                   /\ train_state' = r.train_state
                   /\ restored_params' = r.restored_params
                   /\ hist' = [hist EXCEPT
                                 !.loaded = IF r.train_state # None
                                            THEN "train_state" ELSE "params",
                                 !.stored_step = IF r.train_state # None
                                                 THEN Some(stored_step) ELSE @,
                                 !.constructors =
                                     IF r.train_state # None
                                     THEN Append(@, "load_trainstate_checkpoint")
                                     ELSE @]
                   /\ pc' = "create_train_state"
                   /\ UNCHANGED error
    /\ UNCHANGED <<FLAGS, setupVars, loopVars, start_step, sharded_rng,
                   jax_utils_rng, metrics, evalVars, log_metrics, checkpoint_dir>>

\* from-scratch initialization whenever no train state was loaded
constructor_choice_ignoring_params(ts, params) ==
    IF ts = None THEN "init_fn" ELSE "keep"

\* lines 283-289: which constructor makes the train state
\*   "init_fn", "create_trainstate_from_params", or "keep" the loaded one
constructor_choice(ts, params) ==
    IF ts = None /\ params = None THEN "init_fn"
    ELSE IF ts = None /\ params # None THEN "create_trainstate_from_params"
    ELSE "keep"

\* lines 145-153
init_fn(rng) ==
    TrainState_create([l \in Leaves |-> (InitParams[l] + KeyHash(rng)) % Modulus])

\* lines 142-143
create_trainstate_from_params(params) == TrainState_create(params)

CreateTrainState ==
    /\ pc = "create_train_state"
    /\ LET c == constructor_choice(train_state, restored_params)
           k == next_rng(jax_utils_rng)
       IN  /\ IF c = "init_fn" THEN
                  /\ train_state' = Some(init_fn(k.out))
                  /\ jax_utils_rng' = k.rng
                  /\ UNCHANGED restored_params
              ELSE IF c = "create_trainstate_from_params" THEN
                  /\ train_state' = Some(create_trainstate_from_params(Get(restored_params)))
                  /\ restored_params' = None           \* del restored_params
                  /\ UNCHANGED jax_utils_rng
              ELSE UNCHANGED <<train_state, restored_params, jax_utils_rng>>
           /\ hist' = [hist EXCEPT
                         !.constructors = IF c = "keep" THEN @ ELSE Append(@, c),
                         !.donated.params =
                             IF c = "create_trainstate_from_params"
                             THEN @ \cup {"restored_params"} ELSE @]
    /\ pc' = "pre_loop"
    /\ UNCHANGED <<FLAGS, error, setupVars, loopVars, start_step, sharded_rng,
                   metrics, evalVars, log_metrics, checkpoint_dir>>

-----------------------------------------------------------------------------
(* Checkpoint saves (lines 253-266) *)

\* StreamingCheckpointer.save_all: the rolling checkpoint has one fixed file
\* name, a milestone checkpoint has the step in its name
checkpoint_file(step_value, milestone) ==
    IF milestone THEN <<"streaming_train_state", step_value>>
    ELSE <<"streaming_train_state">>

\* save_checkpoint: the metadata reads the locals variant and gptj_config of
\* main (lines 257-259); save_all then writes the whole file or raises and
\* writes nothing (save_all_ok is the outcome of the storage)
save_checkpoint(ts, milestone, variant, gptj_cfg, save_all_ok) ==
    IF gptj_cfg = None
    THEN [error |-> Some("NameError"), file |-> <<>>, record |-> <<>>,
          step |-> ts.step, milestone |-> milestone]
    ELSE LET record == [step |-> ts.step, params |-> ts.params,
                        metadata |-> [step |-> ts.step,
                                      variant |-> variant,
                                      gptj_config |-> Get(gptj_cfg)]]
         IN  [error |-> IF save_all_ok THEN None ELSE Some("IOError"),
              file |-> checkpoint_file(ts.step, milestone),
              record |-> Some(record),
              step |-> ts.step, milestone |-> milestone]

write_file(dir, file, record) ==
    [f \in (DOMAIN dir) \cup {file} |-> IF f = file THEN record ELSE dir[f]]

\* the state after the save_checkpoint calls `calls` (a sequence of milestone
\* flags) made one after the other at `phase`; a call that raises ends them
RECURSIVE issue_saves(_, _, _, _, _)
issue_saves(calls, phase, dir, h, save_all_ok) ==
    IF calls = <<>> THEN [error |-> None, dir |-> dir, hist |-> h]
    ELSE LET r == save_checkpoint(Get(train_state), Head(calls), FLAGS,
                                  gptj_config, save_all_ok)
             entry == [step |-> r.step, milestone |-> r.milestone, phase |-> phase,
                       file |-> r.file, completed |-> r.error = None,
                       error |-> r.error, record |-> r.record,
                       saved |-> Get(train_state),
                       after |-> h.train_steps, evals |-> h.eval_steps]
             h2 == [h EXCEPT !.saves = Append(@, entry),
                             !.iter_saves = Append(@, entry)]
         IN  IF r.error # None
             THEN [error |-> r.error, dir |-> dir, hist |-> h2]
             ELSE issue_saves(Tail(calls), phase,
                              write_file(dir, r.file, Get(r.record)), h2,
                              save_all_ok)

-----------------------------------------------------------------------------
(* The loop (lines 291-326) *)

\* no save before the loop
pre_loop_saves_none(flags) == <<>>

\* lines 293-294: the save_checkpoint calls before the loop
pre_loop_saves(flags) == IF flags.save_model_freq > 0 THEN <<FALSE>> ELSE <<>>

\* a loop counter that starts at 0 whatever the restored step is
trange_from_zero(start, stop) == [next |-> 0, stop |-> stop]

\* line 298
trange(start, stop) == [next |-> start, stop |-> stop]

PreLoop ==
    /\ pc = "pre_loop"
    /\ start_step' = Some(Get(train_state).step)
    /\ \E save_all_ok \in BOOLEAN :
       LET r == issue_saves(pre_loop_saves(FLAGS), "pre_loop", checkpoint_dir,
                            [hist EXCEPT !.iter_saves = <<>>,
                                         !.start = train_state],
                            save_all_ok)
           k == next_rng(jax_utils_rng)
       IN  /\ checkpoint_dir' = r.dir
           /\ hist' = r.hist
           /\ IF r.error # None THEN
                  /\ Raise(Get(r.error))
                  /\ UNCHANGED <<sharded_rng, jax_utils_rng, step_counter>>
              ELSE
                  /\ sharded_rng' = Some(k.out)
                  /\ jax_utils_rng' = k.rng
                  /\ step_counter' = Some(trange(Get(train_state).step, FLAGS.total_steps))
                  /\ pc' = "zip"
                  /\ UNCHANGED error
    /\ UNCHANGED <<FLAGS, setupVars, train_state, restored_params, step,
                   hf_batch, pt_batch, hf_pos, pt_pos, metrics, evalVars,
                   log_metrics>>

\* a zip that goes on while either dataset still has a batch
zip_next_longest(counter, hf_p, hf_has_next, pt_p, pt_has_next) ==
    IF counter.next >= counter.stop THEN
        [yield |-> FALSE, exhausted |-> None, counter |-> counter,
         hf_pos |-> hf_p, pt_pos |-> pt_p]
    ELSE IF ~hf_has_next /\ ~pt_has_next THEN
        [yield |-> FALSE, exhausted |-> Some("hf"),
         counter |-> [counter EXCEPT !.next = @ + 1],
         hf_pos |-> hf_p, pt_pos |-> pt_p]
    ELSE
        [yield |-> TRUE, exhausted |-> None,
         counter |-> [counter EXCEPT !.next = @ + 1],
         hf_pos |-> IF hf_has_next THEN hf_p + 1 ELSE hf_p,
         pt_pos |-> IF pt_has_next THEN pt_p + 1 ELSE pt_p]

\* line 300: zip asks step_counter, then hf_dataset, then pt_dataset for their
\* next item and stops at the first that has none
zip_next(counter, hf_p, hf_has_next, pt_p, pt_has_next) ==
    IF counter.next >= counter.stop THEN
        [yield |-> FALSE, exhausted |-> None, counter |-> counter,
         hf_pos |-> hf_p, pt_pos |-> pt_p]
    ELSE IF ~hf_has_next THEN
        [yield |-> FALSE, exhausted |-> Some("hf"),
         counter |-> [counter EXCEPT !.next = @ + 1],
         hf_pos |-> hf_p, pt_pos |-> pt_p]
    ELSE IF ~pt_has_next THEN
        [yield |-> FALSE, exhausted |-> Some("pt"),
         counter |-> [counter EXCEPT !.next = @ + 1],
         hf_pos |-> hf_p + 1, pt_pos |-> pt_p]
    ELSE
        [yield |-> TRUE, exhausted |-> None,
         counter |-> [counter EXCEPT !.next = @ + 1],
         hf_pos |-> hf_p + 1, pt_pos |-> pt_p + 1]

ZipNext ==
    /\ pc = "zip"
    /\ \E hf_has_next \in BOOLEAN, pt_has_next \in BOOLEAN :
       LET r == zip_next(Get(step_counter), hf_pos, hf_has_next, pt_pos, pt_has_next)
       IN  /\ step_counter' = Some(r.counter)
           /\ hf_pos' = r.hf_pos
           /\ pt_pos' = r.pt_pos
           /\ IF r.yield THEN
                  /\ step' = Some(Get(step_counter).next)
                  /\ hf_batch' = IF r.hf_pos > hf_pos
                                 THEN Some(Batch(0, r.hf_pos)) ELSE hf_batch
                  /\ pt_batch' = IF r.pt_pos > pt_pos
                                 THEN Some(Batch(1, r.pt_pos)) ELSE pt_batch
                  /\ pc' = "train_step"
                  /\ hist' = [hist EXCEPT !.iter_saves = <<>>, !.eval_entry = <<>>,
                                          !.eval_aux = <<>>]
              ELSE
                  /\ pc' = "final_save"
                  /\ hist' = [hist EXCEPT !.eval_entry = <<>>, !.eval_aux = <<>>,
                                          !.exhausted =
                                 IF r.exhausted # None
                                 THEN Some([which |-> Get(r.exhausted),
                                            train_steps |-> hist.train_steps])
                                 ELSE @]
                  /\ UNCHANGED <<step, hf_batch, pt_batch>>
    /\ UNCHANGED <<FLAGS, error, setupVars, train_state, restored_params,
                   start_step, sharded_rng, jax_utils_rng, metrics, evalVars,
                   log_metrics, checkpoint_dir>>

\* lines 301-307: the train step, then the branch on the log interval
TrainStep ==
    /\ pc = "train_step"
    /\ LET r == train_step(Get(train_state), Get(sharded_rng), Get(hf_batch),
                           Get(pt_batch), FLAGS.pt_loss_weight)
       IN  /\ train_state' = Some(r.train_state)
           /\ sharded_rng' = Some(r.rng)
           /\ metrics' = Some(r.metrics)
           /\ hist' = [hist EXCEPT
                         !.train_steps = @ + 1,
                         !.step_calls = Append(@, [fn |-> "train_step",
                                                   rng |-> Get(sharded_rng),
                                                   returned |-> r.rng]),
                         !.donated.keys = @ \cup {Get(sharded_rng)},
                         !.donated.train_states = @ \cup {Get(train_state)},
                         !.last = Some([before |-> Get(train_state),
                                        rng |-> Get(sharded_rng),
                                        hf_batch |-> Get(hf_batch),
                                        pt_batch |-> Get(pt_batch),
                                        hf_at |-> r.hf_at, pt_at |-> r.pt_at,
                                        hf_rngs |-> r.hf_rngs, pt_rngs |-> r.pt_rngs,
                                        applied |-> r.applied,
                                        after |-> r.train_state]),
                         !.eval_entry =
                             IF Get(step) % FLAGS.log_freq = 0 /\ FLAGS.eval_steps > 0
                             THEN Some([train_state |-> r.train_state,
                                        hf_pos |-> hf_pos, pt_pos |-> pt_pos,
                                        hf_eval |-> Get(hf_eval_iterator),
                                        pt_eval |-> Get(pt_eval_iterator),
                                        eval_steps |-> hist.eval_steps])
                             ELSE @]
    /\ IF Get(step) % FLAGS.log_freq = 0 THEN
           IF FLAGS.eval_steps > 0 THEN
               /\ eval_metric_list' = <<>>
               /\ eval_i' = 0
               /\ pc' = "eval_step"
           ELSE
               /\ pc' = "log"
               /\ UNCHANGED <<eval_metric_list, eval_i>>
       ELSE
           /\ pc' = "save_check"
           /\ UNCHANGED <<eval_metric_list, eval_i>>
    /\ UNCHANGED <<FLAGS, error, setupVars, loopVars, restored_params,
                   start_step, jax_utils_rng, eval_trace, log_metrics,
                   checkpoint_dir>>

\* one eval step more than configured
eval_range_plus_one(flags) == flags.eval_steps + 1

\* line 308: the number of eval steps of one log interval
eval_range(flags) == flags.eval_steps

\* lines 308-312: one eval step.  sharded_eval_step is eval_step under pjit,
\* which runs the Python body when it traces and reuses the trace otherwise:
\* the value the name `metrics` has in the result is main's `metrics` as it
\* is now (traced now) or as it was at an earlier trace (trace reused).
EvalStep ==
    /\ pc = "eval_step"
    /\ \E hf_has_next \in BOOLEAN, pt_has_next \in BOOLEAN :
       IF ~hf_has_next THEN
           /\ Raise("StopIteration")
           /\ UNCHANGED <<hf_eval_iterator, pt_eval_iterator, sharded_rng,
                          eval_metric_list, eval_i, eval_trace, hist>>
       ELSE IF ~pt_has_next THEN
           /\ Raise("StopIteration")
           /\ hf_eval_iterator' = Some(Get(hf_eval_iterator) + 1)
           /\ UNCHANGED <<pt_eval_iterator, sharded_rng, eval_metric_list,
                          eval_i, eval_trace, hist>>
       ELSE \E cell \in {metrics} \cup (IF eval_trace = None THEN {} ELSE {eval_trace}) :
           LET r == eval_step(Get(train_state), Get(sharded_rng),
                              Batch(2, Get(hf_eval_iterator) + 1),
                              Batch(0, Get(pt_eval_iterator) + 1), Get(cell))
           IN  /\ hf_eval_iterator' = Some(Get(hf_eval_iterator) + 1)
               /\ pt_eval_iterator' = Some(Get(pt_eval_iterator) + 1)
               /\ sharded_rng' = Some(r.rng)
               /\ eval_trace' = cell
               /\ eval_metric_list' = Append(eval_metric_list, r.out)
               /\ eval_i' = eval_i + 1
               /\ hist' = [hist EXCEPT
                             !.eval_steps = @ + 1,
                             !.eval_aux = Append(@, r.aux),
                             !.step_calls = Append(@, [fn |-> "eval_step",
                                                       rng |-> Get(sharded_rng),
                                                       returned |-> r.rng]),
                             !.donated.keys = @ \cup {Get(sharded_rng)}]
               /\ pc' = IF eval_i + 1 >= eval_range(FLAGS) THEN "log" ELSE "eval_step"
               /\ UNCHANGED error
    /\ UNCHANGED <<FLAGS, tokenizer, hf_dataset, pt_dataset, gptj_config, config,
                   train_state_partition, shard_fns, gather_fns, loopVars,
                   train_state, restored_params, start_step, jax_utils_rng,
                   metrics, log_metrics, checkpoint_dir>>

\* lines 313-318: the log record of this iteration
log_record(step_value, m, list, flags) ==
    LET m2 == IF flags.eval_steps > 0 THEN dict_update(m, average_metrics(list)) ELSE m
    IN  [metrics |-> m2, log_metrics |-> dict_update("step" :> Rat(step_value, 1), m2)]

Log ==
    /\ pc = "log"
    /\ LET r == log_record(Get(step), Get(metrics), eval_metric_list, FLAGS)
       IN  /\ metrics' = Some(r.metrics)
           /\ log_metrics' = Some(r.log_metrics)
    /\ hist' = [hist EXCEPT !.logs = @ + 1]
    /\ pc' = "save_check"
    /\ UNCHANGED <<FLAGS, error, setupVars, loopVars, train_state,
                   restored_params, start_step, sharded_rng, jax_utils_rng,
                   evalVars, checkpoint_dir>>

\* two independent `if`s: both saves when both intervals align
interval_saves_both(step_value, flags) ==
    (IF flags.save_milestone_freq > 0
        /\ (step_value + 1) % Max(flags.save_milestone_freq, 1) = 0
     THEN <<TRUE>> ELSE <<>>)
    \o (IF flags.save_model_freq > 0
        /\ (step_value + 1) % Max(flags.save_model_freq, 1) = 0
     THEN <<FALSE>> ELSE <<>>)

\* lines 320-323: the save_checkpoint calls of the iteration with loop index
\* step_value, as their milestone flags
interval_saves(step_value, flags) ==
    IF flags.save_milestone_freq > 0
       /\ (step_value + 1) % Max(flags.save_milestone_freq, 1) = 0 THEN <<TRUE>>
    ELSE IF flags.save_model_freq > 0
       /\ (step_value + 1) % Max(flags.save_model_freq, 1) = 0 THEN <<FALSE>>
    ELSE <<>>

\* the interval saves inside a try block that drops what they raise
SaveCheck_swallowing_failure ==
    /\ pc = "save_check"
    /\ \E save_all_ok \in BOOLEAN :
       LET r == issue_saves(interval_saves(Get(step), FLAGS), "interval",
                            checkpoint_dir, hist, save_all_ok)
       IN  /\ checkpoint_dir' = r.dir
           /\ hist' = r.hist
    /\ pc' = "zip"
    /\ UNCHANGED <<FLAGS, error, setupVars, loopVars, train_state,
                   restored_params, start_step, sharded_rng, jax_utils_rng,
                   metrics, evalVars, log_metrics>>

SaveCheck ==
    /\ pc = "save_check"
    /\ \E save_all_ok \in BOOLEAN :
       LET r == issue_saves(interval_saves(Get(step), FLAGS), "interval",
                            checkpoint_dir, hist, save_all_ok)
       IN  /\ checkpoint_dir' = r.dir
           /\ hist' = r.hist
           /\ IF r.error # None
              THEN Raise(Get(r.error))
              ELSE pc' = "zip" /\ UNCHANGED error
    /\ UNCHANGED <<FLAGS, setupVars, loopVars, train_state, restored_params,
                   start_step, sharded_rng, jax_utils_rng, metrics, evalVars,
                   log_metrics>>

\* a final save made as a milestone save
final_saves_as_milestone(flags) ==
    IF flags.save_model_freq > 0 THEN <<TRUE>> ELSE <<>>

\* a final save that is enabled by the milestone interval instead
final_saves_on_milestone_freq(flags) ==
    IF flags.save_milestone_freq > 0 THEN <<FALSE>> ELSE <<>>

\* lines 325-326: the save_checkpoint calls after the loop
final_saves(flags) == IF flags.save_model_freq > 0 THEN <<FALSE>> ELSE <<>>

FinalSave ==
    /\ pc = "final_save"
    /\ \E save_all_ok \in BOOLEAN :
       LET r == issue_saves(final_saves(FLAGS), "final", checkpoint_dir, hist,
                            save_all_ok)
       IN  /\ checkpoint_dir' = r.dir
           /\ hist' = r.hist
           /\ IF r.error # None
              THEN Raise(Get(r.error))
              ELSE pc' = "done" /\ UNCHANGED error
    /\ UNCHANGED <<FLAGS, setupVars, loopVars, train_state, restored_params,
                   start_step, sharded_rng, jax_utils_rng, metrics, evalVars,
                   log_metrics>>

Next ==
    \/ LoadDatasets
    \/ LoadEvalDatasets
    \/ BuildModel
    \/ ResolvePartition
    \/ MakeShardAndGatherFns
    \/ Restore
    \/ CreateTrainState
    \/ PreLoop
    \/ ZipNext
    \/ TrainStep
    \/ EvalStep
    \/ Log
    \/ SaveCheck
    \/ FinalSave

Spec == Init /\ [][Next]_vars

-----------------------------------------------------------------------------
(* Properties *)

\* the step the run resumes from: the stored step of a full checkpoint, else 0
ResumedStep == IF hist.stored_step = None THEN 0 ELSE Get(hist.stored_step)

LoopEnded == pc \in {"final_save", "done"}

\* C1: a run resumed at step s with total T whose training iterators never
\* run dry executes exactly max(0, T - s) train steps, and its step counter
\* is T when the loop ends (for s <= T).
C1_ResumeRunsRemainingSteps ==
    (LoopEnded /\ hist.exhausted = None) =>
        /\ hist.train_steps = Max(0, FLAGS.total_steps - ResumedStep)
        /\ ResumedStep <= FLAGS.total_steps =>
               Get(train_state).step = FLAGS.total_steps

C1_Witness ==
    /\ pc = "done"
    /\ hist.exhausted = None
    /\ ResumedStep = 1
    /\ FLAGS.total_steps = MaxSteps
    /\ hist.train_steps = MaxSteps - 1
    /\ Get(train_state).step = MaxSteps

\* C2: in a loop iteration whose post-update step is a multiple of both
\* positive intervals exactly one save is issued, and it is a milestone save.
IterationDone == pc = "zip" /\ step # None

C2_MilestoneTakesPriority ==
    (/\ IterationDone
     /\ FLAGS.save_milestone_freq > 0
     /\ FLAGS.save_model_freq > 0
     /\ (Get(step) + 1) % Max(FLAGS.save_milestone_freq, 1) = 0
     /\ (Get(step) + 1) % Max(FLAGS.save_model_freq, 1) = 0) =>
        /\ Len(hist.iter_saves) = 1
        /\ hist.iter_saves[1].milestone
        /\ hist.iter_saves[1].phase = "interval"
        /\ hist.iter_saves[1].step = Get(step) + 1

C2_Witness ==
    /\ IterationDone
    /\ FLAGS.save_milestone_freq = MaxFreq
    /\ FLAGS.save_model_freq = 1
    /\ (Get(step) + 1) % MaxFreq = 0
    /\ Len(hist.iter_saves) = 1
    /\ hist.iter_saves[1].milestone

\* a completed save issued after the last train step whose file records the
\* train state as it is now
RecordsFinalState(entry) ==
    /\ entry.completed
    /\ entry.after = hist.train_steps
    /\ entry.file \in DOMAIN checkpoint_dir
    /\ checkpoint_dir[entry.file].step = Get(train_state).step
    /\ checkpoint_dir[entry.file].params = Get(train_state).params

\* C3 as stated: whenever main ends without an error and either interval is
\* positive, a checkpoint of the final train state was written after the
\* last train step.
C3_FinalCheckpointIfAnyIntervalPositive ==
    (pc = "done" /\ (FLAGS.save_model_freq > 0 \/ FLAGS.save_milestone_freq > 0)) =>
        \E i \in DOMAIN hist.saves : RecordsFinalState(hist.saves[i])

\* C3 amended: whenever main ends without an error and the rolling interval
\* save_model_freq is positive, the last save is the rolling save after the
\* loop and its file records the final train state.
C3_FinalRollingCheckpoint ==
    (pc = "done" /\ FLAGS.save_model_freq > 0) =>
        /\ hist.saves # <<>>
        /\ LET last == hist.saves[Len(hist.saves)]
           IN  /\ last.phase = "final"
               /\ ~last.milestone
               /\ last.file = checkpoint_file(0, FALSE)
               /\ RecordsFinalState(last)

C3_Witness ==
    /\ pc = "done"
    /\ FLAGS.save_model_freq = MaxFreq
    /\ FLAGS.save_milestone_freq = 0
    /\ hist.train_steps = 1
    /\ hist.saves[Len(hist.saves)].phase = "final"
    /\ checkpoint_dir[checkpoint_file(0, FALSE)].step = Get(train_state).step

\* C4: when the hf or the pt training iterator runs dry before the total step
\* count, the loop ends without an error and control is at the post-loop
\* save (the only error there can be afterwards is one that save raises); no
\* train step runs afterwards, and every train step runs on a pair of batches
\* drawn in its own iteration.
C4_ExhaustionEndsLoopGracefully ==
    /\ hist.exhausted # None =>
           /\ LoopEnded \/ (pc = "error" /\ Get(error).at = "final_save")
           /\ error # None => Get(error).at = "final_save"
           /\ hist.train_steps = Get(hist.exhausted).train_steps
           /\ Get(step_counter).next <= FLAGS.total_steps
    /\ pc = "train_step" =>
           /\ hf_pos = hist.train_steps + 1
           /\ pt_pos = hist.train_steps + 1
           /\ hf_batch = Some(Batch(0, hf_pos))
           /\ pt_batch = Some(Batch(1, pt_pos))

C4_Witness ==
    /\ pc = "done"
    /\ hist.exhausted # None
    /\ Get(hist.exhausted).which = "pt"
    /\ hist.train_steps = 1
    /\ Get(train_state).step < FLAGS.total_steps
    /\ FLAGS.save_model_freq > 0
    /\ hist.saves[Len(hist.saves)].phase = "final"

\* C5: in every train step both gradients are taken at the parameters the
\* step started from, the gradient handed to the optimizer is
\* hf_grad + pt_loss_weight * pt_grad on every leaf, and the optimizer is
\* applied once, with that gradient.
C5_CombinedGradient ==
    hist.last # None =>
        LET u == Get(hist.last)
            hf == grad_fn(u.before.params, u.hf_batch, u.hf_rngs).grads
            pt == grad_fn(u.before.params, u.pt_batch, u.pt_rngs).grads
        IN  /\ u.hf_at = u.before.params
            /\ u.pt_at = u.before.params
            /\ Len(u.applied) = 1
            /\ \A l \in Leaves :
                   u.applied[1][l] = hf[l] + FLAGS.pt_loss_weight * pt[l]
            /\ u.after.step = u.before.step + 1
            /\ \A l \in Leaves :
                   u.after.params[l] =
                       (u.before.params[l] + Modulus
                          - ((hf[l] + FLAGS.pt_loss_weight * pt[l]) % Modulus)) % Modulus
            /\ Get(train_state).step = ResumedStep + hist.train_steps

C5_Witness ==
    /\ hist.train_steps = 2
    /\ FLAGS.pt_loss_weight = MaxWeight
    /\ LET u == Get(hist.last)
       IN  /\ u.hf_batch # u.pt_batch
           /\ \E l \in Leaves :
                  grad_fn(u.before.params, u.pt_batch, u.pt_rngs).grads[l] # 0
           /\ u.after.params # u.before.params

\* the log record of this iteration was emitted after its eval steps
LoggedWithEval == pc = "save_check" /\ hist.eval_entry # None

\* C6: the log record emitted on a log interval with eval_steps > 0 holds,
\* under the eval metric names, the averages of the metrics its eval steps
\* computed.
C6_LogRecordHasEvalAverages ==
    LoggedWithEval =>
        LET avg == average_metrics(hist.eval_aux)
        IN  \A k \in DOMAIN avg :
                /\ k \in DOMAIN Get(log_metrics)
                /\ Get(log_metrics)[k] = avg[k]

\* C7: the eval steps of a log interval leave the train state and the training
\* iterators as they were; each draws one batch from each held-out iterator,
\* and exactly eval_steps of them run.
C7_EvalLeavesTrainStateAlone ==
    hist.eval_entry # None =>
        LET e == Get(hist.eval_entry)
            n == hist.eval_steps - e.eval_steps
        IN  /\ train_state = Some(e.train_state)
            /\ hf_pos = e.hf_pos
            /\ pt_pos = e.pt_pos
            /\ n <= FLAGS.eval_steps
            /\ Len(hist.eval_aux) = n
            /\ pc # "error" =>
                   /\ Get(hf_eval_iterator) = e.hf_eval + n
                   /\ Get(pt_eval_iterator) = e.pt_eval + n
            /\ pc \notin {"error", "eval_step"} => n = FLAGS.eval_steps

C7_Witness ==
    /\ pc = "log"
    /\ hist.eval_entry # None
    /\ FLAGS.eval_steps = MaxEval
    /\ hist.eval_steps = 2 * MaxEval
    /\ Get(hf_eval_iterator) = 2 * MaxEval
    /\ hist.train_steps = 2

\* C8: the train state the loop starts from is made by exactly one of
\* from-scratch initialization, creation from restored parameters (step 0) and
\* the restore of a full train state; a restored train state is kept as it
\* is, and restored parameters are never dropped for a fresh initialization.
C8_ExactlyOneConstructor ==
    hist.start # None =>
        LET st == Get(hist.start)
            sel == FLAGS.load_checkpoint
        IN  /\ Len(hist.constructors) = 1
            /\ sel = <<>> =>
                   /\ hist.constructors[1] = "init_fn"
                   /\ st.step = 0
            /\ sel # <<>> => hist.loaded # "nothing"
            /\ hist.loaded = "train_state" =>
                   /\ hist.constructors[1] = "load_trainstate_checkpoint"
                   /\ st.step = Get(hist.stored_step)
                   /\ st.params = StoredParams
            /\ hist.loaded = "params" =>
                   /\ hist.constructors[1] = "create_trainstate_from_params"
                   /\ st.step = 0
                   /\ st.params = IF sel[1] = "huggingface"
                                  THEN PretrainedParams ELSE StoredParams
                   /\ restored_params = None

C8_Witness ==
    /\ pc = "zip"
    /\ hist.start # None
    /\ hist.loaded = "params"
    /\ FLAGS.load_checkpoint[1] = "params-only"
    /\ hist.constructors = <<"create_trainstate_from_params">>
    /\ Get(hist.start).params = StoredParams

\* C9: with a well-formed load_dataset_state and a supported model the run
\* gets through model construction without an error.
C9_PersistedDatasetStateReachesRunning ==
    (Len(FLAGS.load_dataset_state) = 2 /\ FLAGS.model \in {"gptj", "opt"}) =>
        ~(pc = "error" /\ Get(error).at = "build_model")

\* C10: a milestone save is issued at most once per step value and only for
\* steps after the step the run started from, and no rolling save writes the
\* file of a milestone save.
C10_MilestonesNeverOverwritten ==
    \A i \in DOMAIN hist.saves :
        LET a == hist.saves[i]
        IN  /\ a.milestone =>
                   /\ start_step # None
                   /\ a.step > Get(start_step)
                   /\ a.step > ResumedStep
            /\ \A j \in DOMAIN hist.saves :
                   LET b == hist.saves[j]
                   IN  /\ (i < j /\ a.milestone /\ b.milestone) => a.step # b.step
                       /\ (a.milestone /\ a.completed /\ b.completed /\ i # j) =>
                              a.file # b.file

C10_Witness ==
    /\ pc = "done"
    /\ ResumedStep = 1
    /\ FLAGS.save_milestone_freq = 1
    /\ FLAGS.save_model_freq = 1
    /\ Cardinality({i \in DOMAIN hist.saves : hist.saves[i].milestone}) = MaxSteps - 1
    /\ Cardinality({i \in DOMAIN hist.saves : ~hist.saves[i].milestone}) = 2
    /\ Cardinality(DOMAIN checkpoint_dir) = MaxSteps

\* C11: every save issued, under 'gptj' and under 'opt', builds its record,
\* and the record has the step of the train state it saves, the variant
\* metadata and the configuration of the model that is trained.
C11_EverySaveBuildsItsRecord ==
    FLAGS.model \in {"gptj", "opt"} =>
        \A i \in DOMAIN hist.saves :
            LET entry == hist.saves[i]
            IN  /\ entry.record # None
                /\ Get(entry.record).step = entry.saved.step
                /\ Get(entry.record).metadata.step = entry.saved.step
                /\ Get(entry.record).metadata.variant = FLAGS
                /\ Get(entry.record).metadata.gptj_config = Get(config)

\* the phase a control point of main belongs to
Phase(p) ==
    IF p \in {"load_datasets", "load_eval_datasets", "build_model"} THEN "Init"
    ELSE IF p \in {"resolve_partition", "make_shard_and_gather_fns"} THEN "Resolving"
    ELSE IF p \in {"restore", "create_train_state"} THEN "Restoring"
    ELSE IF p = "done" THEN "Completed"
    ELSE "Running"

\* the phase main is in, or was in when it raised
CurrentPhase == Phase(IF pc = "error" THEN Get(error).at ELSE pc)

Restoring_started ==
    \/ hist.loaded # "nothing"
    \/ hist.constructors # <<>>
    \/ train_state # None
    \/ restored_params # None

\* Init, then Resolving (the partition specs, then the shard/gather
\* functions), then Restoring, then Running
PhaseOrder ==
    /\ train_state_partition # None => config # None
    /\ (shard_fns # None \/ gather_fns # None) => train_state_partition # None
    /\ CurrentPhase \in {"Init", "Resolving"} =>
           ~Restoring_started /\ hist.saves = <<>> /\ hist.step_calls = <<>>
    /\ (Restoring_started \/ hist.saves # <<>>) =>
           shard_fns # None /\ gather_fns # None
    /\ CurrentPhase = "Restoring" => hist.saves = <<>> /\ hist.step_calls = <<>>
    /\ (hist.step_calls # <<>> \/ pc = "train_step") =>
           /\ train_state # None
           /\ hist.start # None
           /\ Len(hist.constructors) = 1
    /\ CurrentPhase = "Completed" => hist.start # None

\* the interval condition of lines 320-323 for the step a save records
AtIntervalTrigger(entry) ==
    /\ entry.phase = "interval"
    /\ entry.after >= 1
    /\ LET freq == IF entry.milestone THEN FLAGS.save_milestone_freq
                   ELSE FLAGS.save_model_freq
       IN  freq > 0 /\ entry.step % Max(freq, 1) = 0

\* after a save that returned main is in the loop or has completed, after
\* one that raised it has ended with that error
SaveReturns ==
    hist.iter_saves # <<>> =>
        LET last == hist.iter_saves[Len(hist.iter_saves)]
        IN  IF last.completed
            THEN pc \in {"zip", "final_save", "done"}
            ELSE pc = "error" /\ Get(error).name = Get(last.error)

\* C12: the phases occur in the order Init, Resolving, Restoring, Running;
\* no restore or save comes before the shard/gather functions, no train step
\* before the train state is restored, and every save is issued in the loop
\* at an interval trigger point.
C12_SavesOnlyAtIntervalTriggers ==
    /\ PhaseOrder
    /\ SaveReturns
    /\ \A i \in DOMAIN hist.saves : AtIntervalTrigger(hist.saves[i])

\* C12 amended: the same order of phases; a save is issued only once the train
\* state is restored, and it is the rolling save before the first train step
\* (save_model_freq > 0), a save of the loop at an interval trigger point, or
\* the rolling save after the loop (save_model_freq > 0).
C12_PhasesInOrder ==
    /\ PhaseOrder
    /\ SaveReturns
    /\ \A i \in DOMAIN hist.saves :
           LET entry == hist.saves[i]
           IN  /\ hist.start # None
               /\ entry.phase \in {"pre_loop", "interval", "final"}
               /\ entry.phase = "pre_loop" =>
                      /\ i = 1 /\ entry.after = 0 /\ ~entry.milestone
                      /\ FLAGS.save_model_freq > 0
                      /\ entry.saved = Get(hist.start)
               /\ entry.phase = "interval" => AtIntervalTrigger(entry)
               /\ entry.phase = "final" =>
                      /\ i = Len(hist.saves) /\ ~entry.milestone
                      /\ FLAGS.save_model_freq > 0
                      /\ pc \in {"done", "error"}
                      /\ entry.after = hist.train_steps

C12_Witness ==
    /\ pc = "done"
    /\ hist.loaded = "train_state"
    /\ hist.train_steps = 2
    /\ Len(hist.saves) = 3
    /\ hist.saves[1].phase = "pre_loop"
    /\ hist.saves[2].phase = "interval" /\ hist.saves[2].milestone
    /\ hist.saves[3].phase = "final"

\* C13: a save is synchronous with the loop: from its start to its return no
\* train step and no eval step runs and the train state it saves stays as it
\* is, the file it writes holds that train state; a save that fails ends main
\* with its error, and no train step runs afterwards.
C13_SavesAreSynchronous ==
    /\ SaveReturns
    /\ hist.iter_saves # <<>> =>
           LET last == hist.iter_saves[Len(hist.iter_saves)]
           IN  /\ hist.train_steps = last.after
               /\ hist.eval_steps = last.evals
               /\ Get(train_state) = last.saved
               /\ last.completed =>
                      /\ last.file \in DOMAIN checkpoint_dir
                      /\ checkpoint_dir[last.file].step = last.saved.step
                      /\ checkpoint_dir[last.file].params = last.saved.params
    /\ \A i \in DOMAIN hist.saves :
           LET entry == hist.saves[i]
           IN  ~entry.completed =>
                   /\ i = Len(hist.saves)
                   /\ pc = "error"
                   /\ Get(error).name = Get(entry.error)
                   /\ Get(error).at \in {"pre_loop", "save_check", "final_save"}
                   /\ hist.train_steps = entry.after
                   /\ hist.eval_steps = entry.evals
                   /\ Get(train_state) = entry.saved

C13_Witness ==
    /\ pc = "error"
    /\ Get(error).name = "IOError"
    /\ Get(error).at = "save_check"
    /\ hist.train_steps = 1
    /\ FLAGS.total_steps = MaxSteps
    /\ Len(hist.saves) = 2
    /\ hist.saves[1].completed
    /\ ~hist.saves[2].completed

\* C14: the value a donating call was given is not held by any variable of
\* main after the call (train state and RNG key of a train step, RNG key of
\* an eval step, restored parameters of create_trainstate_from_params); each
\* train or eval step gets the RNG key the step call before it returned, and
\* no RNG key is given to two step calls.
C14_LinearThreading ==
    /\ \A i \in DOMAIN hist.step_calls :
           /\ i > 1 => hist.step_calls[i].rng = hist.step_calls[i - 1].returned
           /\ \A j \in DOMAIN hist.step_calls :
                  i < j => hist.step_calls[i].rng # hist.step_calls[j].rng
    /\ hist.step_calls # <<>> =>
           sharded_rng = Some(hist.step_calls[Len(hist.step_calls)].returned)
    /\ sharded_rng # None => Get(sharded_rng) \notin hist.donated.keys
    /\ jax_utils_rng \notin hist.donated.keys
    /\ train_state # None => Get(train_state) \notin hist.donated.train_states
    /\ "restored_params" \in hist.donated.params => restored_params = None
    /\ Cardinality(hist.donated.keys) = Len(hist.step_calls)
    /\ Cardinality(hist.donated.train_states) = hist.train_steps

C14_Witness ==
    /\ pc = "done"
    /\ "restored_params" \in hist.donated.params
    /\ Len(hist.step_calls) = 4
    /\ hist.step_calls[1].fn = "train_step"
    /\ hist.step_calls[2].fn = "eval_step"
    /\ hist.step_calls[3].fn = "eval_step"
    /\ hist.step_calls[4].fn = "train_step"
    /\ Cardinality(hist.donated.keys) = 4
    /\ Cardinality(hist.donated.train_states) = 2

\* C15: on each restore path (from scratch, from restored parameters, from a
\* full checkpoint) the loop index is the step counter of the train state
\* when an iteration starts and one less after its train step; every save at
\* an interval trigger records a step that is a positive multiple of its
\* interval and is the number of optimizer updates since step 0.
C15_LoopIndexIsStepCounter ==
    /\ hist.start # None =>
           Get(train_state).step = ResumedStep + hist.train_steps
    /\ pc = "zip" => Get(step_counter).next = Get(train_state).step
    /\ pc = "train_step" => Get(step) = Get(train_state).step
    /\ (pc \in {"eval_step", "log", "save_check"} \/ IterationDone) =>
           Get(train_state).step = Get(step) + 1
    /\ \A i \in DOMAIN hist.saves :
           LET entry == hist.saves[i]
               freq == IF entry.milestone THEN FLAGS.save_milestone_freq
                       ELSE FLAGS.save_model_freq
           IN  entry.phase = "interval" =>
                   /\ freq > 0
                   /\ entry.step > 0
                   /\ entry.step % Max(freq, 1) = 0
                   /\ entry.step = ResumedStep + entry.after
                   /\ entry.completed =>
                          /\ Get(entry.record).step = entry.step
                          /\ Get(entry.record).metadata.step = entry.step

C15_Witness ==
    /\ IterationDone
    /\ hist.loaded = "train_state"
    /\ ResumedStep = 1
    /\ FLAGS.save_model_freq = MaxFreq
    /\ FLAGS.save_milestone_freq = 0
    /\ Len(hist.iter_saves) = 1
    /\ hist.iter_saves[1].phase = "interval"
    /\ hist.iter_saves[1].completed
    /\ hist.iter_saves[1].step = MaxFreq
    /\ hist.iter_saves[1].after = MaxFreq - 1

\* the rolling saves issued so far, in order
RollingSaves == SelectSeq(hist.saves, LAMBDA entry : ~entry.milestone)

\* C16: with save_model_freq > 0 the first save is a rolling save of the
\* initial or restored train state, made before any train step; from the
\* first train step on, the rolling checkpoint file and the most recent
\* rolling save record a step from the start step to the step of the current
\* train state, and the steps of successive rolling saves never decrease.
C16_RollingCheckpointCoversRun ==
    /\ (FLAGS.save_model_freq > 0 /\ hist.train_steps >= 1) =>
           /\ hist.saves # <<>>
           /\ hist.saves[1].phase = "pre_loop"
           /\ ~hist.saves[1].milestone
           /\ hist.saves[1].completed
           /\ hist.saves[1].after = 0
           /\ hist.saves[1].saved = Get(hist.start)
           /\ hist.saves[1].step = Get(start_step)
           /\ checkpoint_file(0, FALSE) \in DOMAIN checkpoint_dir
           /\ checkpoint_dir[checkpoint_file(0, FALSE)].step >= Get(start_step)
           /\ checkpoint_dir[checkpoint_file(0, FALSE)].step <= Get(train_state).step
           /\ LET last == RollingSaves[Len(RollingSaves)]
              IN  /\ last.step >= Get(start_step)
                  /\ last.step <= Get(train_state).step
                  /\ last.completed =>
                         checkpoint_dir[checkpoint_file(0, FALSE)].step = last.step
    /\ \A i \in DOMAIN RollingSaves : \A j \in DOMAIN RollingSaves :
           i < j => RollingSaves[i].step <= RollingSaves[j].step

C16_Witness ==
    /\ IterationDone
    /\ FLAGS.save_model_freq = MaxFreq
    /\ FLAGS.save_milestone_freq = 0
    /\ Get(start_step) = 0
    /\ hist.train_steps = MaxFreq + 1
    /\ Len(RollingSaves) = 2
    /\ checkpoint_dir[checkpoint_file(0, FALSE)].step = MaxFreq
    /\ Get(train_state).step = MaxFreq + 1

====
